---- MODULE Spec2Model ----
(***************************************************************************)
(* A model of model/gpt2_modeling.py: the GPT-2 language model GPT2Model,  *)
(* its classification variant GPT2Model_C, and the optimizer grouping      *)
(* function gpt2_get_params_for_weight_decay_optimization.                 *)
(*                                                                         *)
(* Three specifications share the variables:                               *)
(*   Spec    a GPT2Model: construction, forward calls statement by         *)
(*           statement, optimizer steps on the word embedding table;       *)
(*   SpecC   the same for a GPT2Model_C;                                   *)
(*   SpecWD  one call of the grouping function on a module graph.          *)
(*                                                                         *)
(* The model-parallel library mpu is not part of the file.  Its pieces are *)
(* modelled the way the file relies on them: the vocabulary is cut into    *)
(* equal contiguous slices, one per rank; the sharded lookup sums the      *)
(* ranks' partial results; the copy into the model-parallel region is the  *)
(* identity; the gather concatenates the ranks' tensors along the last     *)
(* dimension in rank order; the transformer returns the same tensor on     *)
(* every rank.  Tensors hold small integers, and a batch is one sequence.  *)
(***************************************************************************)
EXTENDS Integers, Sequences, FiniteSets, TLC

(***************************************************************************)
(* Bounds of the model.                                                    *)
(***************************************************************************)
\* number of module objects in the module graph handed to the grouping function
NumModules == 2
\* number of distinct parameter objects
NumParams == 2
\* largest number of model-parallel ranks
MaxWorld == 2
\* largest vocabulary size
MaxVocab == 4
\* largest hidden size
MaxHidden == 1
\* max_sequence_length, the size of the position table
MaxSeq == 1
\* num_labels, the number of classification labels
NumLabels == 2
\* largest number of optimizer steps on the word embedding table
MaxUpdates == 1

\* Python's None, as the value of a parameter slot that holds no tensor
None == 0

ParamIds == 1 .. NumParams

\* the classes the isinstance test of the grouping function tells apart
Kinds == {"mpu.LayerNorm", "torch.nn.LayerNorm", "other"}

VARIABLES
    \* ---- gpt2_get_params_for_weight_decay_optimization ----
    modules,        \* the module graph: module id -> [kind, weight, bias, children]
    requires_grad,  \* parameter object -> its requires_grad flag
    pcWD,           \* "start" before the call, "done" after it returned
    ret,            \* the value returned: <<weight_decay_params, no_weight_decay_params>>
    stdout,         \* what the call printed
    \* ---- GPT2Model and GPT2Model_C ----
    pc,             \* "new", "idle", the forward step about to run, "returned", "raised"
    cls,            \* the class being constructed: "GPT2Model" or "GPT2Model_C"
    world_size,     \* the number of model-parallel ranks
    hp,             \* the constructor's arguments
    hidden_size_attr, \* what the attribute lookup self.hidden_size finds
    parallel_output,  \* self.parallel_output
    registered,     \* the submodules __init__ has registered on self
    exception,      \* the exception raised, "" when none
    word_weight,    \* word_embeddings.weight: rank -> its vocabulary slice
    updates,        \* the number of optimizer steps taken
    inputs,         \* the arguments of the forward call in progress
    locals,         \* the local variables of the forward call in progress
    result,         \* what forward returned: rank -> tensor
    trace           \* the library calls of the forward call in progress, in order

varsWD == <<modules, requires_grad, pcWD, ret, stdout>>

varsFwd == <<pc, cls, world_size, hp, hidden_size_attr, parallel_output, registered,
             exception, word_weight, updates, inputs, locals, result, trace>>

vars == <<modules, requires_grad, pcWD, ret, stdout,
          pc, cls, world_size, hp, hidden_size_attr, parallel_output, registered,
          exception, word_weight, updates, inputs, locals, result, trace>>

(***************************************************************************)
(* Sequences of length at most n over S.                                   *)
(***************************************************************************)
SeqsUpTo(S, n) == UNION {[1 .. k -> S] : k \in 0 .. n}

RECURSIVE SumSeq(_)
SumSeq(s) == IF s = <<>> THEN 0 ELSE Head(s) + SumSeq(Tail(s))

(***************************************************************************)
(* torch.nn.Module.named_modules(): the module itself, then its children   *)
(* in registration order, depth first, each module object once (the memo   *)
(* set removes duplicates).  Only the modules are kept, the function under *)
(* study never reads the names.                                            *)
(***************************************************************************)
RECURSIVE Walk(_, _, _, _)
Walk(mods, stack, memo, out) ==
    IF stack = <<>> THEN out
    ELSE LET m == Head(stack) IN
         IF m \in memo
         THEN Walk(mods, Tail(stack), memo, out)
         ELSE Walk(mods, mods[m].children \o Tail(stack), memo \cup {m}, Append(out, m))

named_modules(mods, root) == Walk(mods, <<root>>, {}, <<>>)

\* module_._parameters.items(): the (name, parameter) pairs in registration order
items(mod) == << [n |-> "weight", p |-> mod.weight], [n |-> "bias", p |-> mod.bias] >>

\* [p for n, p in kept]
Values(kept) == [i \in 1 .. Len(kept) |-> kept[i].p]

\* a variant that forgets mpu.LayerNorm
IsLayerNormBuggy(mod) == mod.kind = "torch.nn.LayerNorm"
\* isinstance(module_, (mpu.LayerNorm, torch.nn.LayerNorm))
isinstance_LayerNorm(mod) == mod.kind \in {"mpu.LayerNorm", "torch.nn.LayerNorm"}

\* a variant of the second comprehension that forgets to leave the bias out
DecayParamsBuggy(mod) == Values(SelectSeq(items(mod), LAMBDA e : e.p # None))
\* the three list comprehensions of the loop body
LayerNormParams(mod) == Values(SelectSeq(items(mod), LAMBDA e : e.p # None))
DecayParams(mod) == Values(SelectSeq(items(mod), LAMBDA e : e.p # None /\ e.n # "bias"))
BiasParams(mod) == Values(SelectSeq(items(mod), LAMBDA e : e.p # None /\ e.n = "bias"))

\* a variant that puts weight_decay on the wrong dictionary
EmptyGroupsSwapped == << [params |-> <<>>, weight_decay |-> 0], [params |-> <<>>] >>
\* the two dictionaries the function starts from
EmptyGroups == << [params |-> <<>>], [params |-> <<>>, weight_decay |-> 0] >>

\* one turn of the for loop: groups is <<weight_decay_params, no_weight_decay_params>>
LoopBody(groups, mod) ==
    IF isinstance_LayerNorm(mod)
    THEN << groups[1],
            [groups[2] EXCEPT !.params = @ \o LayerNormParams(mod)] >>
    ELSE << [groups[1] EXCEPT !.params = @ \o DecayParams(mod)],
            [groups[2] EXCEPT !.params = @ \o BiasParams(mod)] >>

RECURSIVE ForLoop(_, _, _)
ForLoop(mods, order, groups) ==
    IF order = <<>> THEN groups
    ELSE ForLoop(mods, Tail(order), LoopBody(groups, mods[Head(order)]))

gpt2_get_params_for_weight_decay_optimization(mods, root) ==
    ForLoop(mods, named_modules(mods, root), EmptyGroups)

(***************************************************************************)
(* Tensors.  A batch holds one sequence; a tensor of shape [s, h] is a     *)
(* sequence of s rows of h integers.                                       *)
(***************************************************************************)
Vals == {0, 1}

Zeros(h) == [j \in 1 .. h |-> 0]

Dot(a, b) == SumSeq([j \in 1 .. Len(a) |-> a[j] * b[j]])

\* a + b, elementwise
TensorAdd(a, b) == [t \in 1 .. Len(a) |-> [j \in 1 .. Len(a[t]) |-> a[t][j] + b[t][j]]]

\* torch.nn.functional.linear(x, w): x times the transpose of w (w is [out, in])
F_linear(x, w) == [t \in 1 .. Len(x) |-> [o \in 1 .. Len(w) |-> Dot(x[t], w[o])]]

\* torch.nn.Embedding.forward: row ids[t] of the table (row p is table[p + 1])
Embedding(table, ids) == [t \in 1 .. Len(ids) |-> table[ids[t] + 1]]

\* torch.nn.Dropout with p = 1/2 while training: an element is zeroed where
\* the mask is 0 and scaled by 1/(1-p) = 2 where it is 1; the identity in
\* eval mode.
DropoutMasks(x) == [1 .. Len(x) -> [1 .. Len(x[1]) -> {0, 1}]]
Dropout(x, mask, training) ==
    IF training
    THEN [t \in 1 .. Len(x) |-> [j \in 1 .. Len(x[t]) |-> 2 * mask[t][j] * x[t][j]]]
    ELSE x

\* torch.nn.Linear: freshly initialised weight [out, in] and bias [out]; one
\* draw of the initialiser stands for all
LinearWeight(in, out) == [o \in 1 .. out |-> [i \in 1 .. in |-> 1 + ((o + i) % 2)]]
LinearBias(out) == [o \in 1 .. out |-> o % 2]
Linear(x, in, out) ==
    [t \in 1 .. Len(x) |->
        [o \in 1 .. out |-> Dot(x[t], LinearWeight(in, out)[o]) + LinearBias(out)[o]]]

\* position_embeddings.weight after init_method: one draw stands for all
PositionTable(max_sequence_length, hidden_size) ==
    [p \in 1 .. max_sequence_length |-> [j \in 1 .. hidden_size |-> (p + j) % 2]]

(***************************************************************************)
(* The model-parallel library mpu.                                         *)
(***************************************************************************)
Ranks(ws) == 0 .. (ws - 1)

\* mpu.VocabParallelEmbedding: rank r holds the rows of the vocabulary
\* entries r * per .. (r + 1) * per - 1, where per = vocab_size / world_size
PerPartition(vocab_size, ws) == vocab_size \div ws

RECURSIVE AllReduceSum(_, _)
AllReduceSum(part, ws) ==
    IF ws = 1 THEN part[0]
    ELSE TensorAdd(AllReduceSum(part, ws - 1), part[ws - 1])

\* mpu.VocabParallelEmbedding.forward: every rank looks up the ids of its own
\* slice, contributes zero rows for the others, and the partial results are
\* summed over the ranks
VocabParallelEmbedding(ww, ws, ids) ==
    LET per == Len(ww[0])
        h == Len(ww[0][1])
        part == [r \in Ranks(ws) |->
                    [t \in 1 .. Len(ids) |->
                        IF r * per <= ids[t] /\ ids[t] < (r + 1) * per
                        THEN ww[r][ids[t] - r * per + 1]
                        ELSE Zeros(h)]]
    IN AllReduceSum(part, ws)

\* mpu.GPT2ParallelTransformer.forward: the same tensor on every rank, of the
\* shape of its input; token t attends to the tokens the mask allows
GPT2ParallelTransformer(x, mask) ==
    [t \in 1 .. Len(x) |->
        [j \in 1 .. Len(x[t]) |->
            SumSeq([u \in 1 .. Len(x) |-> mask[t][u] * x[u][j]])]]

\* mpu.copy_to_model_parallel_region: the identity in the forward pass
copy_to_model_parallel_region(x) == x

\* mpu.gather_from_model_parallel_region: the ranks' tensors concatenated
\* along the last dimension in rank order; the input itself on one rank
RECURSIVE ConcatLast(_, _)
ConcatLast(per_rank, ws) ==
    IF ws = 1 THEN per_rank[0]
    ELSE LET left == ConcatLast(per_rank, ws - 1) IN
         [t \in 1 .. Len(left) |-> left[t] \o per_rank[ws - 1][t]]

gather_from_model_parallel_region(per_rank, ws) ==
    IF ws = 1 THEN per_rank[0] ELSE ConcatLast(per_rank, ws)

(***************************************************************************)
(* GPT2Model.__init__ and GPT2Model_C.__init__.                            *)
(***************************************************************************)
Module(type, in, out) == [type |-> type, in |-> in, out |-> out]

\* lines 62-84 and 139-161: the submodules both constructors register
Backbone(a) ==
    [word_embeddings |-> Module("mpu.VocabParallelEmbedding", a.vocab_size, a.hidden_size),
     position_embeddings |-> Module("torch.nn.Embedding", a.max_sequence_length, a.hidden_size),
     embedding_dropout |-> Module("torch.nn.Dropout", 0, 0),
     transformer |-> Module("mpu.GPT2ParallelTransformer", a.hidden_size, a.hidden_size)]

\* lines 162-163: the head of GPT2Model_C, sized by the attribute self.hidden_size
ClassifierHead(attr, num_labels) ==
    [linear |-> Module("torch.nn.Linear", attr, attr),
     classifier |-> Module("torch.nn.Linear", attr, num_labels)]

\* word_embeddings.weight after init_method, rank by rank: one draw stands
\* for all (the optimizer steps reach the other tables)
InitialTable(a, ws) ==
    [r \in Ranks(ws) |->
        [i \in 1 .. PerPartition(a.vocab_size, ws) |->
            [j \in 1 .. a.hidden_size |->
                (r * PerPartition(a.vocab_size, ws) + i + j) % 2]]]

\* the constructor arguments; mpu refuses a vocabulary the ranks do not divide
CtorArgs(ws) ==
    {a \in [vocab_size : 1 .. MaxVocab, hidden_size : 1 .. MaxHidden,
            max_sequence_length : {MaxSeq}, num_labels : {NumLabels}] :
        a.vocab_size % ws = 0}

NoCall ==
    /\ inputs = << >>
    /\ locals = << >>
    /\ result = << >>
    /\ trace = << >>

NoModel ==
    /\ pc = "new"
    /\ cls = "none"
    /\ world_size = 1
    /\ hp = << >>
    /\ hidden_size_attr = None
    /\ parallel_output = FALSE
    /\ registered = << >>
    /\ exception = ""
    /\ word_weight = << >>
    /\ updates = 0
    /\ NoCall

\* GPT2Model(...), lines 42-84
ConstructGPT2Model ==
    /\ pc = "new"
    /\ \E ws \in 1 .. MaxWorld :
          \E a \in CtorArgs(ws), po \in BOOLEAN :
                /\ world_size' = ws
                /\ hp' = [a EXCEPT !.num_labels = 0]
                /\ parallel_output' = po
                /\ word_weight' = InitialTable(a, ws)
                /\ registered' = Backbone(a)
    /\ cls' = "GPT2Model"
    /\ pc' = "idle"
    /\ UNCHANGED <<hidden_size_attr, exception, updates, inputs, locals, result, trace>>
    /\ UNCHANGED varsWD

\* GPT2Model_C(...), lines 118-163.  Line 162 reads self.hidden_size, which
\* neither the class nor torch.nn.Module defines and no line assigns: the
\* lookup raises AttributeError unless a subclass supplies the attribute
\* (attr is then its value).
ConstructGPT2Model_C ==
    /\ pc = "new"
    /\ \E ws \in 1 .. MaxWorld :
          \E a \in CtorArgs(ws), po \in BOOLEAN :
             \E attr \in {None, a.hidden_size} :
                /\ world_size' = ws
                /\ hp' = a
                /\ parallel_output' = po
                /\ word_weight' = InitialTable(a, ws)
                /\ hidden_size_attr' = attr
                /\ IF attr = None
                   THEN /\ registered' = Backbone(a)
                        /\ exception' = "AttributeError"
                        /\ pc' = "raised"
                   ELSE /\ registered' = Backbone(a) @@ ClassifierHead(attr, a.num_labels)
                        /\ exception' = ""
                        /\ pc' = "idle"
    /\ cls' = "GPT2Model_C"
    /\ UNCHANGED <<updates, inputs, locals, result, trace>>
    /\ UNCHANGED varsWD

\* An optimizer step on the word embedding table, after a forward call.
UpdateWeight ==
    /\ pc = "returned"
    /\ updates < MaxUpdates
    /\ updates' = updates + 1
    /\ \E r \in Ranks(world_size) :
          \E i \in 1 .. Len(word_weight[r]) :
             \E j \in 1 .. hp.hidden_size, v \in Vals :
                /\ v # word_weight[r][i][j]
                /\ word_weight' = [word_weight EXCEPT ![r][i][j] = v]
    /\ pc' = "idle"
    /\ inputs' = << >>
    /\ locals' = << >>
    /\ result' = << >>
    /\ trace' = << >>
    /\ UNCHANGED <<cls, world_size, hp, hidden_size_attr, parallel_output, registered,
                   exception>>
    /\ UNCHANGED varsWD

(***************************************************************************)
(* GPT2Model.forward (lines 86-108) and GPT2Model_C.forward (165-192), one *)
(* statement at a time.  Every rank runs the same statements, and the      *)
(* collectives inside the mpu calls keep the ranks in step.                *)
(***************************************************************************)
\* a variant that runs the transformer before the dropout
NextPcBuggy(c, p) ==
    CASE p = "words" -> "positions"
      [] p = "positions" -> "add"
      [] p = "add" -> "transformer"
      [] p = "transformer" -> "dropout"
      [] p = "dropout" -> "copy"
      [] p = "copy" -> IF c = "GPT2Model" THEN "linear" ELSE "pooler"
      [] p = "linear" -> "return"
      [] p = "pooler" -> "classifier"
      [] p = "classifier" -> "return"
      [] p = "return" -> "returned"

\* the statement that follows statement p
NextPc(c, p) ==
    CASE p = "words" -> "positions"
      [] p = "positions" -> "add"
      [] p = "add" -> "dropout"
      [] p = "dropout" -> "transformer"
      [] p = "transformer" -> "copy"
      [] p = "copy" -> IF c = "GPT2Model" THEN "linear" ELSE "pooler"
      [] p = "linear" -> "return"
      [] p = "pooler" -> "classifier"
      [] p = "classifier" -> "return"
      [] p = "return" -> "returned"

\* assignment to a local variable
Assign(name, val) == locals' = (name :> val) @@ locals

Log(op, in, out) == trace' = Append(trace, [op |-> op, in |-> in, out |-> out])

Frame == <<cls, world_size, hp, hidden_size_attr, parallel_output, registered,
           exception, word_weight, updates, inputs, result>>

\* the lower triangular (left-to-right) attention mask of a sequence of s tokens
CausalMask(s) == [t \in 1 .. s |-> [u \in 1 .. s |-> IF u <= t THEN 1 ELSE 0]]

\* model(input_ids, position_ids, attention_mask)
Call ==
    /\ pc = "idle"
    /\ \E s \in 1 .. hp.max_sequence_length :
          \E ids \in [1 .. s -> 0 .. (hp.vocab_size - 1)], training \in BOOLEAN :
                inputs' = [input_ids |-> ids,
                           position_ids |-> [t \in 1 .. s |-> t - 1],
                           attention_mask |-> CausalMask(s),
                           training |-> training]
    /\ locals' = << >>
    /\ result' = << >>
    /\ trace' = << >>
    /\ pc' = "words"
    /\ UNCHANGED <<cls, world_size, hp, hidden_size_attr, parallel_output, registered,
                   exception, word_weight, updates>>
    /\ UNCHANGED varsWD

\* words_embeddings = self.word_embeddings(input_ids)
WordEmbeddings ==
    /\ pc = "words"
    /\ LET out == VocabParallelEmbedding(word_weight, world_size, inputs.input_ids) IN
          /\ Assign("words_embeddings", out)
          /\ Log("word_embeddings", inputs.input_ids, out)
    /\ pc' = NextPc(cls, pc)
    /\ UNCHANGED Frame
    /\ UNCHANGED varsWD

\* position_embeddings = self.position_embeddings(position_ids)
PositionEmbeddings ==
    /\ pc = "positions"
    /\ LET out == Embedding(PositionTable(hp.max_sequence_length, hp.hidden_size),
                            inputs.position_ids) IN
          /\ Assign("position_embeddings", out)
          /\ Log("position_embeddings", inputs.position_ids, out)
    /\ pc' = NextPc(cls, pc)
    /\ UNCHANGED Frame
    /\ UNCHANGED varsWD

\* embeddings = words_embeddings + position_embeddings
Add ==
    /\ pc = "add"
    /\ LET out == TensorAdd(locals.words_embeddings, locals.position_embeddings) IN
          /\ Assign("embeddings", out)
          /\ Log("add", <<locals.words_embeddings, locals.position_embeddings>>, out)
    /\ pc' = NextPc(cls, pc)
    /\ UNCHANGED Frame
    /\ UNCHANGED varsWD

\* embeddings = self.embedding_dropout(embeddings)
EmbeddingDropout ==
    /\ pc = "dropout"
    /\ \E mask \in DropoutMasks(locals.embeddings) :
          LET out == Dropout(locals.embeddings, mask, inputs.training) IN
             /\ Assign("embeddings", out)
             /\ Log("dropout", locals.embeddings, out)
    /\ pc' = NextPc(cls, pc)
    /\ UNCHANGED Frame
    /\ UNCHANGED varsWD

\* transformer_output = self.transformer(embeddings, attention_mask)
Transformer ==
    /\ pc = "transformer"
    /\ LET out == GPT2ParallelTransformer(locals.embeddings, inputs.attention_mask) IN
          /\ Assign("transformer_output", out)
          /\ Log("transformer", <<locals.embeddings, inputs.attention_mask>>, out)
    /\ pc' = NextPc(cls, pc)
    /\ UNCHANGED Frame
    /\ UNCHANGED varsWD

\* transformer_output_parallel = mpu.copy_to_model_parallel_region(transformer_output)
CopyToRegion ==
    /\ pc = "copy"
    /\ LET out == copy_to_model_parallel_region(locals.transformer_output) IN
          /\ Assign("transformer_output_parallel", out)
          /\ Log("copy", locals.transformer_output, out)
    /\ pc' = NextPc(cls, pc)
    /\ UNCHANGED Frame
    /\ UNCHANGED varsWD

\* a variant with a projection table of its own, left as initialised
ProjectionWeightUntied(ww, r) ==
    [i \in 1 .. Len(ww[r]) |-> [j \in 1 .. Len(ww[r][i]) |-> (r * Len(ww[r]) + i + j) % 2]]
\* a variant in which every rank projects onto the first rank's slice
ProjectionWeightRank0(ww, r) == ww[0]
\* self.word_embeddings.weight, as rank r reads it at line 103
ProjectionWeight(ww, r) == ww[r]

\* logits_parallel = F.linear(transformer_output_parallel, self.word_embeddings.weight)
LinearProjection ==
    /\ pc = "linear"
    /\ LET out == [r \in Ranks(world_size) |->
                      F_linear(locals.transformer_output_parallel,
                               ProjectionWeight(word_weight, r))] IN
          /\ Assign("logits_parallel", out)
          /\ Log("linear", locals.transformer_output_parallel, out)
    /\ pc' = NextPc(cls, pc)
    /\ UNCHANGED Frame
    /\ UNCHANGED varsWD

\* pooler = self.linear(transformer_output_parallel)
Pooler ==
    /\ pc = "pooler"
    /\ LET l == registered.linear
           out == Linear(locals.transformer_output_parallel, l.in, l.out) IN
          /\ Assign("pooler", out)
          /\ Log("pooler", locals.transformer_output_parallel, out)
    /\ pc' = NextPc(cls, pc)
    /\ UNCHANGED Frame
    /\ UNCHANGED varsWD

\* gpt_classifier_output = self.classifier(pooler); logits_parallel = gpt_classifier_output
Classifier ==
    /\ pc = "classifier"
    /\ LET l == registered.classifier
           out == Linear(locals.pooler, l.in, l.out) IN
          /\ locals' = ("gpt_classifier_output" :> out) @@
                       ("logits_parallel" :> [r \in Ranks(world_size) |-> out]) @@ locals
          /\ Log("classifier", locals.pooler, out)
    /\ pc' = NextPc(cls, pc)
    /\ UNCHANGED Frame
    /\ UNCHANGED varsWD

\* a variant with the test of the flag inverted
ReturnValueBuggy(po, logits_parallel, ws) ==
    IF po
    THEN [r \in Ranks(ws) |-> gather_from_model_parallel_region(logits_parallel, ws)]
    ELSE logits_parallel
\* if self.parallel_output: return logits_parallel
\* return mpu.gather_from_model_parallel_region(logits_parallel)
ReturnValue(po, logits_parallel, ws) ==
    IF po
    THEN logits_parallel
    ELSE [r \in Ranks(ws) |-> gather_from_model_parallel_region(logits_parallel, ws)]

Return ==
    /\ pc = "return"
    /\ result' = ReturnValue(parallel_output, locals.logits_parallel, world_size)
    /\ IF parallel_output
       THEN UNCHANGED trace
       ELSE Log("gather", locals.logits_parallel,
                gather_from_model_parallel_region(locals.logits_parallel, world_size))
    /\ pc' = NextPc(cls, pc)
    /\ UNCHANGED <<cls, world_size, hp, hidden_size_attr, parallel_output, registered,
                   exception, word_weight, updates, inputs, locals>>
    /\ UNCHANGED varsWD

Init ==
    /\ NoModel
    /\ modules = << >>
    /\ requires_grad = << >>
    /\ pcWD = "unused"
    /\ ret = << >>
    /\ stdout = << >>

\* the life of a GPT2Model
Next ==
    \/ ConstructGPT2Model
    \/ UpdateWeight
    \/ Call
    \/ WordEmbeddings
    \/ PositionEmbeddings
    \/ Add
    \/ EmbeddingDropout
    \/ Transformer
    \/ CopyToRegion
    \/ LinearProjection
    \/ Return

Spec == Init /\ [][Next]_vars

\* the life of a GPT2Model_C
NextC ==
    \/ ConstructGPT2Model_C
    \/ UpdateWeight
    \/ Call
    \/ WordEmbeddings
    \/ PositionEmbeddings
    \/ Add
    \/ EmbeddingDropout
    \/ Transformer
    \/ CopyToRegion
    \/ Pooler
    \/ Classifier
    \/ Return

SpecC == Init /\ [][NextC]_vars

(***************************************************************************)
(* The inputs of the grouping function: a graph of n modules, every one    *)
(* reachable from the root module 0.  A child list may name a module       *)
(* twice, and two modules may share a child.                               *)
(***************************************************************************)
ChildLists(n, m) == SeqsUpTo({c \in 0 .. (n - 1) : c > m}, 2)

ChildFns(n) ==
    {ch \in [0 .. (n - 1) -> SeqsUpTo(1 .. (n - 1), 2)] :
        /\ \A m \in 0 .. (n - 1) : ch[m] \in ChildLists(n, m)
        /\ Len(Walk([m \in 0 .. (n - 1) |-> [children |-> ch[m]]], <<0>>, {}, <<>>)) = n}

\* The slot values of k slots.  Parameter objects are numbered in the order
\* of their first registration: object p + 1 is first seen after object p.
MaxOf(s) == IF s = << >> THEN 0 ELSE CHOOSE x \in {s[i] : i \in 1 .. Len(s)} :
                                        \A j \in 1 .. Len(s) : s[j] <= x

RECURSIVE NumberedSlotSeqs(_)
NumberedSlotSeqs(k) ==
    IF k = 0 THEN {<< >>}
    ELSE UNION {{Append(s, v) : v \in {None} \cup {p \in ParamIds : p <= MaxOf(s) + 1}} :
                    s \in NumberedSlotSeqs(k - 1)}

MakeModules(n, ch, kd, sl) ==
    [m \in 0 .. (n - 1) |->
        [kind |-> kd[m], weight |-> sl[2 * m + 1], bias |-> sl[2 * m + 2],
         children |-> ch[m]]]

\* the parameter objects registered somewhere in the graph
Registered(mods) ==
    {mods[m].weight : m \in DOMAIN mods} \cup {mods[m].bias : m \in DOMAIN mods}

InitWD ==
    /\ \E n \in 1 .. NumModules :
          \E sl \in NumberedSlotSeqs(2 * n), ch \in ChildFns(n),
             kd \in [0 .. (n - 1) -> Kinds] :
                modules = MakeModules(n, ch, kd, sl)
    \* every parameter is trainable, or one registered parameter has been frozen
    /\ \E frozen \in {None} \cup (Registered(modules) \ {None}) :
          requires_grad = [p \in ParamIds |-> p # frozen]
    /\ pcWD = "start"
    /\ ret = << >>
    /\ stdout = << >>
    /\ NoModel

\* The call gpt2_get_params_for_weight_decay_optimization(module) on the root module.
GetParams ==
    /\ pcWD = "start"
    /\ LET r == gpt2_get_params_for_weight_decay_optimization(modules, 0) IN
          /\ ret' = r
          /\ stdout' = << Len(r[1].params), Len(r[2].params) >>
    /\ pcWD' = "done"
    /\ UNCHANGED <<modules, requires_grad>>
    /\ UNCHANGED varsFwd

NextWD == GetParams

SpecWD == InitWD /\ [][NextWD]_vars

(***************************************************************************)
(* Properties of GPT2Model and GPT2Model_C.                                *)
(***************************************************************************)
\* the last dimension of every row of tensor x is n
LastDim(x, n) == \A t \in 1 .. Len(x) : Len(x[t]) = n

\* C3: forward of a GPT2Model returns every rank's logits_parallel unchanged
\* (last dimension vocab_size / world_size) when parallel_output is True,
\* and the gather of the ranks' logits (last dimension vocab_size) when it
\* is False; and once the model is constructed no step changes the flag.
C3_ParallelOutput ==
    [][/\ (cls = "GPT2Model" /\ pc = "return" /\ pc' = "returned") =>
             \A r \in Ranks(world_size) :
                IF parallel_output
                THEN /\ result'[r] = locals.logits_parallel[r]
                     /\ LastDim(result'[r], hp.vocab_size \div world_size)
                ELSE /\ result'[r] = gather_from_model_parallel_region(
                                        locals.logits_parallel, world_size)
                     /\ LastDim(result'[r], hp.vocab_size)
       /\ pc # "new" => parallel_output' = parallel_output]_vars

C3_Witness ==
    /\ cls = "GPT2Model"
    /\ pc = "returned"
    /\ ~parallel_output
    /\ world_size = 2
    /\ result[1] # locals.logits_parallel[1]
    /\ \E t \in 1 .. Len(result[1]) : \E v \in 1 .. Len(result[1][t]) : result[1][t][v] # 0

\* the logits of the non-sharded model: the transformer output times the
\* transpose of the full table, vocabulary entry v (from 0) at position v + 1
FullTableRow(ww, v) == ww[v \div Len(ww[0])][(v % Len(ww[0])) + 1]
SerialLogits(x, ww, vocab_size) ==
    [t \in 1 .. Len(x) |-> [v \in 1 .. vocab_size |-> Dot(x[t], FullTableRow(ww, v - 1))]]

\* C4: with parallel_output False, what forward of a GPT2Model returns on
\* every rank equals the logits of the non-sharded model, for every number
\* of ranks and every input.
C4_ShardedEqualsSerial ==
    (cls = "GPT2Model" /\ pc = "returned" /\ ~parallel_output) =>
        \A r \in Ranks(world_size) :
            result[r] = SerialLogits(locals.transformer_output, word_weight, hp.vocab_size)

C4_Witness ==
    /\ cls = "GPT2Model"
    /\ pc = "returned"
    /\ ~parallel_output
    /\ world_size = 2
    /\ Len(word_weight[0]) = 2
    /\ word_weight[0] # word_weight[1]
    /\ \E t \in 1 .. Len(result[0]) : result[0][t][1] # result[0][t][hp.vocab_size]

\* the word embedding lookup of the non-sharded model
SerialLookup(ww, ids) == [t \in 1 .. Len(ids) |-> FullTableRow(ww, ids[t])]

BackboneNames == {"word_embeddings", "position_embeddings", "embedding_dropout",
                  "transformer"}

\* C5: in every forward call of a GPT2Model the logits are computed with the
\* weight the word embedding lookup of that call used, the current
\* word_embeddings.weight, whatever updates the weight has gone through; and
\* the model registers no module besides the embeddings, the dropout and
\* the transformer, so there is no separate projection parameter.
C5_TiedWeights ==
    cls = "GPT2Model" =>
        /\ DOMAIN registered = BackboneNames
        /\ "words_embeddings" \in DOMAIN locals =>
              locals.words_embeddings = SerialLookup(word_weight, inputs.input_ids)
        /\ "logits_parallel" \in DOMAIN locals =>
              \A r \in Ranks(world_size) :
                 locals.logits_parallel[r] =
                    F_linear(locals.transformer_output_parallel, word_weight[r])

C5_Witness ==
    /\ cls = "GPT2Model"
    /\ pc = "returned"
    /\ updates > 0
    /\ word_weight # InitialTable(hp, world_size)
    /\ \E r \in Ranks(world_size) :
          locals.logits_parallel[r] #
             F_linear(locals.transformer_output_parallel, InitialTable(hp, world_size)[r])

\* C6 as claimed: constructing a GPT2Model_C succeeds and registers the head
\* linear (hidden_size -> hidden_size) and classifier (hidden_size -> num_labels).
C6_ConstructionSucceeds ==
    (cls = "GPT2Model_C" /\ pc # "new") =>
        /\ exception = ""
        /\ DOMAIN registered = BackboneNames \cup {"linear", "classifier"}
        /\ registered.linear = Module("torch.nn.Linear", hp.hidden_size, hp.hidden_size)
        /\ registered.classifier = Module("torch.nn.Linear", hp.hidden_size, hp.num_labels)

OpsOf(tr) == [k \in 1 .. Len(tr) |-> tr[k].op]

ForwardOrder == << "word_embeddings", "position_embeddings", "add", "dropout",
                   "transformer", "copy", "linear", "gather" >>

IsPrefix(a, b) == Len(a) <= Len(b) /\ \A k \in 1 .. Len(a) : a[k] = b[k]

\* what the library call at place k of the trace must have been given
Consumed(tr, k) ==
    CASE tr[k].op = "word_embeddings" -> inputs.input_ids
      [] tr[k].op = "position_embeddings" -> inputs.position_ids
      [] tr[k].op = "add" -> << tr[1].out, tr[2].out >>
      [] tr[k].op = "transformer" -> << tr[k - 1].out, inputs.attention_mask >>
      [] OTHER -> tr[k - 1].out

\* C8: in every forward call of a GPT2Model the library calls happen in the
\* order lookup of words, lookup of positions, add, dropout, transformer,
\* copy into the model-parallel region, linear projection, and then the
\* gather if there is one, each given the result of the one before it.
C8_ForwardOrder ==
    cls = "GPT2Model" =>
        /\ IsPrefix(OpsOf(trace), ForwardOrder)
        /\ \A k \in 1 .. Len(trace) : trace[k].in = Consumed(trace, k)
        /\ pc = "returned" => Len(trace) = IF parallel_output THEN 7 ELSE 8

C8_Witness ==
    /\ cls = "GPT2Model"
    /\ pc = "returned"
    /\ ~parallel_output
    /\ inputs.training
    /\ OpsOf(trace) = ForwardOrder
    /\ trace[4].out # trace[4].in
    /\ trace[8].out # trace[7].out[0]

(***************************************************************************)
(* Properties of gpt2_get_params_for_weight_decay_optimization.            *)
(***************************************************************************)
\* the modules reachable from the root along child links
RECURSIVE Closure(_, _)
Closure(mods, S) ==
    LET T == S \cup UNION {{mods[m].children[i] : i \in 1 .. Len(mods[m].children)} : m \in S}
    IN IF T = S THEN S ELSE Closure(mods, T)

Reachable(mods) == Closure(mods, {0})

SlotNames == {"weight", "bias"}
SlotVal(mods, m, n) == IF n = "weight" THEN mods[m].weight ELSE mods[m].bias

\* the directly owned, non-None parameter slots of the reachable modules
OwnedSlots(mods) ==
    {sl \in Reachable(mods) \X SlotNames : SlotVal(mods, sl[1], sl[2]) # None}

\* the rule of the claim: a LayerNorm's parameters and every bias are not decayed
NoDecaySlot(mods, sl) ==
    \/ mods[sl[1]].kind \in {"mpu.LayerNorm", "torch.nn.LayerNorm"}
    \/ sl[2] = "bias"

\* the slots among owned that hold parameter object p
SlotsHolding(mods, owned, p) == {sl \in owned : SlotVal(mods, sl[1], sl[2]) = p}

Elems(s) == {s[i] : i \in 1 .. Len(s)}

\* the number of places of sequence s that hold x
Count(s, x) == Cardinality({i \in 1 .. Len(s) : s[i] = x})

C2_FrozenInNeitherGroup ==
    pcWD = "done" =>
        \A p \in Elems(ret[1].params) \cup Elems(ret[2].params) : requires_grad[p]

\* no parameter object sits in slots of two different modules
NoCrossModuleSharing(mods) ==
    LET owned == OwnedSlots(mods) IN
    \A s1, s2 \in owned :
        SlotVal(mods, s1[1], s1[2]) = SlotVal(mods, s2[1], s2[2]) => s1[1] = s2[1]

\* no parameter object sits in two slots at all
NoSharedSlot(mods) ==
    LET owned == OwnedSlots(mods) IN
    \A s1, s2 \in owned :
        SlotVal(mods, s1[1], s1[2]) = SlotVal(mods, s2[1], s2[2]) => s1 = s2

ListedOnce ==
    /\ Len(ret[1].params) + Len(ret[2].params) = Cardinality(OwnedSlots(modules))
    /\ \A p \in Registered(modules) \ {None} :
          Count(ret[1].params \o ret[2].params, p) = 1

\* C9 as claimed: when no parameter object is registered in more than one
\* module, each parameter is listed exactly once over the two groups.
C9_OncePerModuleSharing ==
    (pcWD = "done" /\ NoCrossModuleSharing(modules)) => ListedOnce

\* C9, amended: when no parameter object is registered in more than one slot
\* (of the same module or of different ones), each non-None parameter is
\* listed exactly once over the two groups together, and the two lengths add
\* up to the number of non-None directly owned slots.
C9_ListedOnce ==
    (pcWD = "done" /\ NoSharedSlot(modules)) => ListedOnce

C9_Witness ==
    /\ pcWD = "done"
    /\ NoSharedSlot(modules)
    /\ Cardinality(OwnedSlots(modules)) = NumParams
    /\ ret[1].params # << >>
    /\ ret[2].params # << >>
    /\ stdout = <<1, NumParams - 1>>

\* C10: the call returns the pair (weight-decay group, no-weight-decay group)
\* in that order; the no-weight-decay group carries weight_decay = 0.0 and
\* the weight-decay group carries no weight_decay key, whatever the module;
\* and the call leaves the module's parameters as they were.
C10_ReturnShape ==
    [][(pcWD = "start" /\ pcWD' = "done") =>
          /\ Len(ret') = 2
          /\ DOMAIN ret'[1] = {"params"}
          /\ DOMAIN ret'[2] = {"params", "weight_decay"}
          /\ ret'[2].weight_decay = 0
          /\ LET owned == OwnedSlots(modules) IN
                /\ \A p \in Elems(ret'[1].params) :
                      \E sl \in SlotsHolding(modules, owned, p) : ~NoDecaySlot(modules, sl)
                /\ \A p \in Elems(ret'[2].params) :
                      \E sl \in SlotsHolding(modules, owned, p) : NoDecaySlot(modules, sl)
          /\ modules' = modules
          /\ requires_grad' = requires_grad]_vars

C10_Witness ==
    /\ pcWD = "done"
    /\ OwnedSlots(modules) = {}
    /\ ret = << [params |-> << >>], [params |-> << >>, weight_decay |-> 0] >>

====
